---- MODULE Spec2Model ----
(***************************************************************************)
(* Statistics reconciliation, caching and request layer of the sportsense  *)
(* backend (backend/services/agent.py, backend/services/highlightly.py,    *)
(* backend/cache.py).                                                      *)
(*                                                                         *)
(* The module holds several state machines over disjoint variables; each   *)
(* has its own Init/Next/Spec and leaves the other variables untouched:    *)
(*   SpecMerge    SportradarAgent._extract_football_stats and the          *)
(*                head-to-head enrichment that feeds it                    *)
(*   SpecDetails  SportradarAgent._extract_stats_from_match_details        *)
(*   SpecCache    HighlightlyClient two-tier cache and cache.SimpleCache   *)
(*   SpecRequest  HighlightlyClient._make_request (SpecRequestFair adds    *)
(*                the fairness of its loop)                                *)
(*   SpecResolve  HighlightlyClient.resolve_team_id / get_all_teams        *)
(*   SpecH2H      SportradarAgent.fetch_highlightly_data, head-to-head     *)
(***************************************************************************)
EXTENDS Integers, Sequences, FiniteSets, TLC

\* ------------------------------------------------------------------ bounds
MaxVal == 2
MaxItems == 2
MaxKeys == 2
MaxTd == 3
MaxTime == 2
MaxTtl == 2
MaxResolves == 2
MaxH2HCalls == 2
MaxMatches == 2
MaxDate == 2
MaxDated == 3
MaxCallers == 2

\* ------------------------------------------------------------- vocabulary
Fields == {"points", "yards", "completionPct", "touchdowns", "attempts", "sacks"}
StatKeys == Fields \ {"points"}
Val == 0..MaxVal
Absent == -1

Max(a, b) == IF a >= b THEN a ELSE b

\* A player/statistics list item after the name has been classified
\* ("touchdown"/"td" in name, "yard" in name, ...) and the value coerced.
Item == [f : StatKeys, v : Val]
ItemLists == UNION {[1..n -> Item] : n \in 0..MaxItems}

\* A team object's `statistics` dict: a key is Absent or carries a number.
StatsDicts == {d \in [StatKeys -> Val \cup {Absent}] :
                 Cardinality({k \in StatKeys : d[k] # Absent}) <= MaxKeys}
NoStats == [k \in StatKeys |-> Absent]

VARIABLES
  mstage,      \* position inside fetch_highlightly_data / _extract_football_stats
  teamStats,   \* latest_match[side]['statistics'] (the team block)
  out,         \* the StatRecord being built (`home` / `away`)
  dstage,      \* position inside _extract_stats_from_match_details
  details,     \* touchdown readings of the four reporting paths of one match
  tsa,         \* team_stats_by_abbr[abbr] : Absent-marked or a stats dict
  subject,     \* which cache object the run exercises
  now,         \* the wall clock (datetime.now / datetime.utcnow)
  hl_cache,    \* HighlightlyClient._cache
  hl_expiry,   \* HighlightlyClient._cache_expiry
  hl_file,     \* <cache_dir>/<cache_key>.json
  sc_cache,    \* SimpleCache._cache
  sc_expiry,   \* SimpleCache._expiry
  ret,         \* the operation that just ran and what it returned
  tracked,     \* one earlier set(k, v, ttl) whose key was not written since
  rq_pc,       \* _make_request: idle / attempting / sleeping / done
  rq_key,      \* cache_key of the call
  rq_ttl,      \* cache_ttl of the call
  rq_attempt,  \* the loop variable `attempt`
  rq_sent,     \* upstream requests issued by the call (self.client.get)
  rq_result,   \* what the call returned
  rq_last,     \* the latest upstream response of the call
  rq_transient, \* every upstream response of the call so far was transient
  rq_limited,  \* every upstream response of the call so far was a 429
  teams_cache, \* HighlightlyClient._teams_cache
  team_id_cache, \* HighlightlyClient._team_id_cache
  teams_file,  \* <cache_dir>/teams_all.json
  rs_reqcache, \* cached /teams responses of _make_request, by request
  rs_pc,       \* resolve_team_id: idle / warm / bootstrap / lookup / search / done
  rs_name,     \* the name being resolved
  rs_net,      \* upstream requests issued by the current resolve_team_id call
  rs_ret,      \* what the call returned
  rs_calls,    \* resolve_team_id calls started
  rs_prev,     \* the id the first successful resolve of each name returned
  rs_failed,   \* the latest resolve failed, no TTL has run out since, and
               \* the resolve under way (if any) asks for the same name
  ts_result,   \* what the caller of the resolve did: none / empty / requested
  h2h_cache,   \* SportradarAgent._h2h_cache
  hh_pc,       \* head-to-head branch: idle / first / sleeping / enrich / done
  hh_key,      \* cache_key of the call
  hh_data,     \* h2h_data of the call
  hh_result,   \* the dict the call returned
  hh_calls,    \* head-to-head calls started
  hh_empty,    \* first response: "no" (matches), "reuse" / "retry" (empty,
               \* with / without an earlier non-empty result of the pair)
  hh_gets,     \* get_head_to_head calls issued by the current request
  hh_hard,     \* a response of the current request was a hard error
  hh_lkg,      \* the latest non-empty upstream result of each pair
  hh_told,     \* the sources whose touchdowns earlier calls reported, by pair
  en_pc,       \* enrichment of the latest match: idle / gather / done
  en_branch,   \* the two fetches of asyncio.gather: pending / outcome
  en_match,    \* latest_match
  en_result,   \* the dict the call returned
  ex_pc,       \* position inside _extract_football_stats
  ex_match,    \* the shape of the match payload
  ex_home,     \* keys of the `home` record
  ex_away,     \* keys of the `away` record
  ex_ret,      \* how the call ended and the two records it returned
  lt_pc,       \* selection of the latest match: idle / max / done
  lt_dates,    \* the `date` values of h2h_data, in order
  lt_pick,     \* index of latest_match in h2h_data
  rc_pc,       \* concurrent resolve_team_id calls of one key: idle / flight / done
  rc_ret       \* what each of them returned

mergeVars == <<mstage, teamStats, out>>
detailVars == <<dstage, details, tsa>>
cacheVars == <<subject, now, hl_cache, hl_expiry, hl_file, sc_cache, sc_expiry,
               ret, tracked>>
requestVars == <<rq_pc, rq_key, rq_ttl, rq_attempt, rq_sent, rq_result,
                 rq_last, rq_transient, rq_limited>>
resolveVars == <<teams_cache, team_id_cache, teams_file, rs_reqcache, rs_pc,
                 rs_name, rs_net, rs_ret, rs_calls, rs_prev, rs_failed,
                 ts_result>>
h2hVars == <<h2h_cache, hh_pc, hh_key, hh_data, hh_result, hh_calls, hh_empty,
             hh_gets, hh_hard, hh_lkg, hh_told>>
enrichVars == <<en_pc, en_branch, en_match, en_result>>
extractVars == <<ex_pc, ex_match, ex_home, ex_away, ex_ret>>
latestVars == <<lt_pc, lt_dates, lt_pick>>
raceVars == <<rc_pc, rc_ret>>
vars == <<mstage, teamStats, out, dstage, details, tsa,
          subject, now, hl_cache, hl_expiry, hl_file, sc_cache, sc_expiry,
          ret, tracked,
          rq_pc, rq_key, rq_ttl, rq_attempt, rq_sent, rq_result,
          rq_last, rq_transient, rq_limited,
          teams_cache, team_id_cache, teams_file, rs_reqcache, rs_pc,
          rs_name, rs_net, rs_ret, rs_calls, rs_prev, rs_failed, ts_result,
          h2h_cache, hh_pc, hh_key, hh_data, hh_result, hh_calls, hh_empty,
          hh_gets, hh_hard, hh_lkg, hh_told,
          en_pc, en_branch, en_match, en_result,
          ex_pc, ex_match, ex_home, ex_away, ex_ret,
          lt_pc, lt_dates, lt_pick, rc_pc, rc_ret>>

\* ------------------------------------------------- _extract_football_stats
empty == [k \in Fields |-> 0]

update_from_team_block(stats, o) ==
  [k \in Fields |->
     IF k \in StatKeys /\ stats[k] # Absent
        /\ ~(k = "touchdowns" /\ o[k] > 0 /\ stats[k] = 0)
     THEN stats[k] ELSE o[k]]

merge_preserve(target, source) ==
  [k \in Fields |->
     IF k \notin StatKeys \/ source[k] = Absent THEN target[k]
     ELSE IF target[k] = 0 THEN source[k]
     ELSE IF k = "touchdowns" /\ source[k] > 0 /\ source[k] > target[k]
          THEN source[k]
     ELSE target[k]]

RECURSIVE SumOf(_, _)
SumOf(items, f) ==
  IF items = <<>> THEN 0
  ELSE (IF Head(items).f = f THEN Head(items).v ELSE 0) + SumOf(Tail(items), f)

RECURSIVE MaxOf(_, _)
MaxOf(items, f) ==
  IF items = <<>> THEN 0
  ELSE Max(IF Head(items).f = f THEN Head(items).v ELSE 0, MaxOf(Tail(items), f))

\* (total_tds, yards, completions, sacks, attempts) of accumulate_from_entries
accumulate_from_entries(items) ==
  [k \in StatKeys |->
     IF k \in {"touchdowns", "yards"} THEN SumOf(items, k) ELSE MaxOf(items, k)]

box_score_merge(o, items) ==
  [k \in Fields |->
     IF k \in StatKeys THEN Max(o[k], accumulate_from_entries(items)[k])
     ELSE o[k]]

preserve_enriched(stats, o) ==
  [k \in Fields |->
     IF k \in StatKeys /\ stats[k] # Absent /\ stats[k] # 0
     THEN stats[k] ELSE o[k]]

map_stats_item(it, o) ==
  [o EXCEPT ![it.f] = IF it.f \in {"yards", "touchdowns"} THEN @ + it.v
                      ELSE it.v]

RECURSIVE map_stats(_, _)
map_stats(items, o) ==
  IF items = <<>> THEN o
  ELSE map_stats(Tail(items), map_stats_item(Head(items), o))

\* -------------------------------------- _extract_stats_from_match_details
\* The touchdown readings one /matches/{id} payload carries for one side.
\*   overallNonEmpty  overallStatistics is a non-empty list
\*   overall          the side's parse_team_stats() dict, NoStats when the
\*                    list has no entry for the side's abbreviation
\*   hasAbbr          the side's abbreviation could be determined
\*   passing/rushing/special   matchStatistics "... Touchdowns" values
\*   specialOverall   overallStatistics "Defensive / Special Teams TDs"
\*   box, tp          _sum_td_from_players over boxScores / topPerformers
\*   compAtt          <<>> or <<comp, att>> of a "Comp/Att" entry
CompAtts == {<<>>, <<0, 0>>, <<0, 1>>, <<1, 1>>}
TdOnly(n) == [k \in StatKeys |-> IF k = "touchdowns" THEN n ELSE 0]

\* Payloads the upstream can send: an entry for the side implies a non-empty
\* list and a known abbreviation (entries are keyed by abbreviation); an
\* empty overallStatistics list carries no special-teams reading.
WellFormed(d) ==
  /\ (d.overall # NoStats) => (d.overallNonEmpty /\ d.hasAbbr)
  /\ ~d.overallNonEmpty => d.specialOverall = 0

parse_team_stats(d) == d.overall

derived_tds(d) ==
  d.passing + d.rushing + (IF d.special = 0 THEN d.specialOverall ELSE d.special)

\* lines 816-834: total_tds > 0 overwrites the side's touchdowns
derive_step(d, t) ==
  IF d.hasAbbr /\ derived_tds(d) > 0
  THEN [t EXCEPT !["touchdowns"] = derived_tds(d)]
  ELSE t

\* lines 877-885: prefer boxScores totals, fall back to topPerformers if zero
best_tds(d) == IF d.box > 0 THEN d.box ELSE d.tp

box_tp_step(d, t) ==
  IF d.hasAbbr /\ best_tds(d) > 0
  THEN [t EXCEPT !["touchdowns"] = best_tds(d)]
  ELSE t

\* lines 914-955: completionPct / attempts from "comp/att"
completion_step(d, t) ==
  IF d.compAtt # <<>>
  THEN [t EXCEPT !["attempts"] = d.compAtt[2],
                 !["completionPct"] =
                    IF d.compAtt[2] # 0
                    THEN (d.compAtt[1] * 100) \div d.compAtt[2] ELSE 0]
  ELSE t

\* home_stats as returned: NoStats stands for the empty dict {}
extract_stats_from_match_details(d) ==
  IF ~d.overallNonEmpty THEN NoStats
  ELSE completion_step(d, box_tp_step(d, derive_step(d, parse_team_stats(d))))

\* _extract_football_stats on the same payload, lines 2996-3200: the team
\* objects of a /matches/{id} payload carry no statistics block and the
\* payload has no match-level `statistics` list; boxScores is the one
\* touchdown source the two functions both read (overallStatistics,
\* matchStatistics and topPerformers are not looked at here)
box_entries(d) ==
  IF d.box > 0 THEN <<[f |-> "touchdowns", v |-> d.box]>> ELSE <<>>

extract_football_stats(d) ==
  map_stats(<<>>,
    preserve_enriched(NoStats,
      box_score_merge(
        merge_preserve(update_from_team_block(NoStats, empty), NoStats),
        box_entries(d))))

\* Inputs of the touchdown reconciliation: every combination of the four
\* reporting paths, the other overallStatistics fields held at zero.
DetailsTdInputs ==
  {d \in [overallNonEmpty : BOOLEAN,
          overall : {NoStats} \cup {TdOnly(n) : n \in 0..MaxTd},
          hasAbbr : BOOLEAN,
          passing : 0..MaxTd, rushing : 0..1, special : 0..1,
          specialOverall : 0..1,
          box : 0..MaxTd, tp : 0..MaxTd, compAtt : CompAtts] : WellFormed(d)}

DetailsInit ==
  /\ dstage = "entry"
  /\ details \in DetailsTdInputs
  /\ tsa = NoStats

\* line 687-689: no overallStatistics -> return {}, {}
DetailsEarlyReturn ==
  /\ dstage = "entry" /\ ~details.overallNonEmpty
  /\ dstage' = "done" /\ tsa' = NoStats
  /\ UNCHANGED details

\* lines 754-762: team_stats_by_abbr[abbr] = parse_team_stats(entry)
DetailsParseOverall ==
  /\ dstage = "entry" /\ details.overallNonEmpty
  /\ dstage' = "parsed" /\ tsa' = parse_team_stats(details)
  /\ UNCHANGED details

DetailsDerive ==
  /\ dstage = "parsed"
  /\ dstage' = "derived" /\ tsa' = derive_step(details, tsa)
  /\ UNCHANGED details

DetailsBoxTp ==
  /\ dstage = "derived"
  /\ dstage' = "boxed" /\ tsa' = box_tp_step(details, tsa)
  /\ UNCHANGED details

\* lines 902-962: home_stats = team_stats_by_abbr.get(home_abbr, {}) and the
\* completion fix-up; returns
DetailsCompletion ==
  /\ dstage = "boxed"
  /\ dstage' = "done" /\ tsa' = completion_step(details, tsa)
  /\ UNCHANGED details

\* ------------------------- fetch_highlightly_data enrichment + normalisation
\* dict.update: every key of src replaces the key of dst
dict_update(dst, src) ==
  [k \in StatKeys |-> IF src[k] # Absent THEN src[k] ELSE dst[k]]

\* /matches/{id} payloads the enrichment draws from: at most MaxKeys
\* non-zero overallStatistics fields, values in Val.
SmallOverall ==
  {d \in [StatKeys -> Val] : Cardinality({k \in StatKeys : d[k] # 0}) <= MaxKeys}
EnrichInputs ==
  {d \in [overallNonEmpty : BOOLEAN,
          overall : {NoStats} \cup SmallOverall,
          hasAbbr : BOOLEAN,
          passing : Val, rushing : {0}, special : {0}, specialOverall : {0},
          box : Val, tp : Val, compAtt : {<<>>, <<1, 1>>}] : WellFormed(d)}
HomeStatsMaps == {extract_stats_from_match_details(d) : d \in EnrichInputs}

MergeInit ==
  /\ mstage = "start"
  /\ teamStats \in StatsDicts
  /\ out = empty

\* agent.py 427-466: ht.setdefault('statistics', {}).update(home_stats_map)
Enrich ==
  /\ mstage = "start"
  /\ \E m \in HomeStatsMaps : teamStats' = dict_update(teamStats, m)
  /\ mstage' = "enriched"
  /\ UNCHANGED out

\* agent.py 497-509: touchdowns summed over the /statistics/{id} node;
\* n = 0 also stands for a missing or failed statistics fetch
TdEnrich ==
  /\ mstage = "enriched"
  /\ \E n \in Val :
       teamStats' = IF n > 0 THEN [teamStats EXCEPT !["touchdowns"] = n]
                    ELSE teamStats
  /\ mstage' = "td_enriched"
  /\ UNCHANGED out

\* agent.py 2880-2889: home = empty(); home["points"] = score.
\* Reached after the enrichment or directly on an un-enriched match.
ExtractStart ==
  /\ mstage \in {"start", "td_enriched"}
  /\ \E p \in Val : out' = [empty EXCEPT !["points"] = p]
  /\ mstage' = "scored"
  /\ UNCHANGED teamStats

TeamBlock ==
  /\ mstage = "scored"
  /\ out' = update_from_team_block(teamStats, out)
  /\ mstage' = "team_block"
  /\ UNCHANGED teamStats

MergePreserve ==
  /\ mstage = "team_block"
  /\ out' = merge_preserve(out, teamStats)
  /\ mstage' = "merged"
  /\ UNCHANGED teamStats

\* agent.py 3056-3071; boxScores[side] that is not a list leaves `out` alone
BoxScore ==
  /\ mstage = "merged"
  /\ \/ \E items \in ItemLists : out' = box_score_merge(out, items)
     \/ out' = out
  /\ mstage' = "boxed"
  /\ UNCHANGED teamStats

PreserveEnriched ==
  /\ mstage = "boxed"
  /\ out' = preserve_enriched(teamStats, out)
  /\ mstage' = "preserved"
  /\ UNCHANGED teamStats

\* agent.py 3147-3214: match-level statistics list, then return
MapStats ==
  /\ mstage = "preserved"
  /\ \E items \in ItemLists : out' = map_stats(items, out)
  /\ mstage' = "done"
  /\ UNCHANGED teamStats

\* ------------------------------------------------------------ cache layer
\* HighlightlyClient._cache/_cache_expiry/file tier and cache.SimpleCache.
\* Time is a counter of clock ticks; a TTL is a number of ticks.
Keys == {"k1", "k2"}
Values == {"v1", "v2"}
Ttls == 1..MaxTtl
None == "none"
NoExpiry == -1
NoFile == [expires_at |-> NoExpiry, data |-> None]
Corrupt == [expires_at |-> NoExpiry, data |-> "corrupt"]
NoRet == [op |-> "none", k |-> None, v |-> None, exp |-> NoExpiry]
NoTrack == [who |-> "none", k |-> None, v |-> None, at |-> 0, ttl |-> 0]

\* _is_cache_valid without the clock comparison
is_cache_valid_no_clock(k) == hl_expiry[k] # NoExpiry

\* highlightly.py 112-116
is_cache_valid(k) == hl_expiry[k] # NoExpiry /\ now < hl_expiry[k]

\* Outcome of the durable write of _cache_data (highlightly.py 123-132):
\* written, open() raised (file untouched), or json.dump raised after the
\* file was truncated.  The except clause swallows both failures.
WriteOutcomes == {"ok", "open_failed", "dump_failed"}

file_after_write(k, v, ttl, w) ==
  IF w = "ok" THEN [expires_at |-> now + ttl, data |-> v]
  ELSE IF w = "open_failed" THEN hl_file[k]
  ELSE Corrupt

Track(who, k, v, ttl) ==
  \/ tracked' = [who |-> who, k |-> k, v |-> v, at |-> now, ttl |-> ttl]
  \/ tracked' = IF tracked.who = who /\ tracked.k = k THEN NoTrack ELSE tracked

\* highlightly.py 118-132
cache_data(k, v, ttl, w) ==
  /\ hl_cache' = [hl_cache EXCEPT ![k] = v]
  /\ hl_expiry' = [hl_expiry EXCEPT ![k] = now + ttl]
  /\ hl_file' = [hl_file EXCEPT ![k] = file_after_write(k, v, ttl, w)]

\* highlightly.py 134-160: the value returned ...
cached_value(k) ==
  IF is_cache_valid(k) THEN hl_cache[k]
  ELSE IF hl_file[k] \notin {NoFile, Corrupt} /\ hl_file[k].expires_at > now
       THEN hl_file[k].data
  ELSE None

\* ... the expiry of the entry that served it ...
cached_expiry(k) ==
  IF is_cache_valid(k) THEN hl_expiry[k]
  ELSE IF hl_file[k] \notin {NoFile, Corrupt} /\ hl_file[k].expires_at > now
       THEN hl_file[k].expires_at
  ELSE NoExpiry

\* ... and the state it leaves behind
get_cached_data(k) ==
  IF is_cache_valid(k) THEN UNCHANGED <<hl_cache, hl_expiry, hl_file>>
  ELSE /\ hl_cache' = [hl_cache EXCEPT ![k] = None]
       /\ hl_expiry' = [hl_expiry EXCEPT ![k] = NoExpiry]
       /\ hl_file' = IF hl_file[k] \notin {NoFile, Corrupt}
                        /\ ~(hl_file[k].expires_at > now)
                     THEN [hl_file EXCEPT ![k] = NoFile]
                     ELSE hl_file

HLSet(k, v, ttl, w) ==
  /\ subject = "highlightly"
  /\ cache_data(k, v, ttl, w)
  /\ Track("highlightly", k, v, ttl)
  /\ ret' = [op |-> "set", k |-> k, v |-> None, exp |-> NoExpiry]
  /\ UNCHANGED <<subject, now, sc_cache, sc_expiry>>

HLGet(k) ==
  /\ subject = "highlightly"
  /\ get_cached_data(k)
  /\ ret' = [op |-> "get", k |-> k, v |-> cached_value(k), exp |-> cached_expiry(k)]
  /\ UNCHANGED <<subject, now, sc_cache, sc_expiry, tracked>>

\* cache.py 26-37
sc_expired(k) == sc_expiry[k] # NoExpiry /\ now > sc_expiry[k]

SCGet(k) ==
  /\ subject = "simple"
  /\ IF sc_cache[k] = None
     THEN /\ ret' = [op |-> "get", k |-> k, v |-> None, exp |-> NoExpiry]
          /\ UNCHANGED <<sc_cache, sc_expiry>>
     ELSE IF sc_expired(k)
     THEN /\ sc_cache' = [sc_cache EXCEPT ![k] = None]
          /\ sc_expiry' = [sc_expiry EXCEPT ![k] = NoExpiry]
          /\ ret' = [op |-> "get", k |-> k, v |-> None, exp |-> NoExpiry]
     ELSE /\ ret' = [op |-> "get", k |-> k, v |-> sc_cache[k], exp |-> sc_expiry[k]]
          /\ UNCHANGED <<sc_cache, sc_expiry>>
  /\ UNCHANGED <<subject, now, hl_cache, hl_expiry, hl_file, tracked>>

\* cache.py 39-43
SCSet(k, v, ttl) ==
  /\ subject = "simple"
  /\ sc_cache' = [sc_cache EXCEPT ![k] = v]
  /\ sc_expiry' = [sc_expiry EXCEPT ![k] = now + ttl]
  /\ Track("simple", k, v, ttl)
  /\ ret' = [op |-> "set", k |-> k, v |-> None, exp |-> NoExpiry]
  /\ UNCHANGED <<subject, now, hl_cache, hl_expiry, hl_file>>

\* cache.py 45-50
sc_delete(c, k) == [c EXCEPT ![k] = None]

SCDelete(k) ==
  /\ subject = "simple"
  /\ sc_cache' = sc_delete(sc_cache, k)
  /\ sc_expiry' = [sc_expiry EXCEPT ![k] = NoExpiry]
  /\ tracked' = IF tracked.k = k THEN NoTrack ELSE tracked
  /\ ret' = [op |-> "delete", k |-> k, v |-> None, exp |-> NoExpiry]
  /\ UNCHANGED <<subject, now, hl_cache, hl_expiry, hl_file>>

\* cache.py 52-56
SCClear ==
  /\ subject = "simple"
  /\ sc_cache' = [k \in Keys |-> None]
  /\ sc_expiry' = [k \in Keys |-> NoExpiry]
  /\ tracked' = NoTrack
  /\ ret' = [op |-> "clear", k |-> None, v |-> None, exp |-> NoExpiry]
  /\ UNCHANGED <<subject, now, hl_cache, hl_expiry, hl_file>>

\* cache.py 58-68
expired_keys == {k \in Keys : sc_expiry[k] # NoExpiry /\ now > sc_expiry[k]}

SCCleanup ==
  /\ subject = "simple"
  /\ sc_cache' = [k \in Keys |-> IF k \in expired_keys THEN None ELSE sc_cache[k]]
  /\ sc_expiry' = [k \in Keys |-> IF k \in expired_keys THEN NoExpiry ELSE sc_expiry[k]]
  /\ ret' = [op |-> "cleanup", k |-> None, v |-> None, exp |-> NoExpiry]
  /\ UNCHANGED <<subject, now, hl_cache, hl_expiry, hl_file, tracked>>

\* the clock advances; what the last operation returned is consumed
Tick ==
  /\ now < MaxTime
  /\ now' = now + 1
  /\ ret' = NoRet
  /\ UNCHANGED <<subject, hl_cache, hl_expiry, hl_file, sc_cache, sc_expiry, tracked>>

\* A fresh process: both in-process maps empty (highlightly.py 60-61,
\* cache.py 18-19); the cache directory may hold records, valid or expired,
\* that an earlier process wrote.
FileRecords ==
  {NoFile} \cup [expires_at : 0..MaxTtl, data : Values]

CacheInit ==
  /\ subject \in {"highlightly", "simple"}
  /\ now = 0
  /\ hl_cache = [k \in Keys |-> None]
  /\ hl_expiry = [k \in Keys |-> NoExpiry]
  /\ hl_file \in [Keys -> FileRecords]
  /\ (subject = "simple" => hl_file = [k \in Keys |-> NoFile])
  /\ sc_cache = [k \in Keys |-> None]
  /\ sc_expiry = [k \in Keys |-> NoExpiry]
  /\ ret = NoRet
  /\ tracked = NoTrack

\* --------------------------------------------------------- request client
\* HighlightlyClient._make_request (highlightly.py 162-236).
max_attempts == 4

\* What one self.client.get can produce: an HTTP response (status, body) or
\* an exception.  A 2xx body is JSON that is truthy (a value), falsy
\* ("empty": [] or {}) or undecodable ("badjson").
Empty == "empty"
BadJson == "badjson"
Statuses == {200, 302, 404, 429, 500}
Responses ==
  [kind : {"http"}, status : {200}, body : Values \cup {Empty, BadJson}]
  \cup [kind : {"http"}, status : Statuses \ {200}, body : {None}]
  \cup [kind : {"transport", "unexpected"}, status : {0}, body : {None}]
NoResponse == [kind |-> "none", status |-> 0, body |-> None]

\* classify with the 4xx branch missing: a client error falls through to
\* the server-error backoff
classify_no_client_branch(r) ==
  IF r.kind = "transport" THEN "transport"
  ELSE IF r.kind = "unexpected" THEN "unexpected"
  ELSE IF 200 <= r.status /\ r.status < 300
       THEN (IF r.body = "badjson" THEN "bad_json" ELSE "success")
  ELSE IF r.status = 429 THEN "rate_limited"
  ELSE "server_error"

\* the branch of the loop body a response takes, in the order of the code
classify(r) ==
  IF r.kind = "transport" THEN "transport"
  ELSE IF r.kind = "unexpected" THEN "unexpected"
  ELSE IF 200 <= r.status /\ r.status < 300
       THEN (IF r.body = BadJson THEN "bad_json" ELSE "success")
  ELSE IF r.status = 429 THEN "rate_limited"
  ELSE IF 400 <= r.status /\ r.status < 500 THEN "client_error"
  ELSE "server_error"

\* the failures the design calls transient: 429, 5xx, transport/timeout
TransientFailure(r) ==
  \/ r.kind = "transport"
  \/ r.kind = "http" /\ (r.status = 429 \/ r.status >= 500)

truthy(v) == v \notin {None, Empty}

NoResult == [kind |-> "none", error |-> "", status |-> 0, data |-> None]
DataResult(d) == [kind |-> "data", error |-> "", status |-> 200, data |-> d]
ErrorResult(e, st) == [kind |-> "error", error |-> e, status |-> st, data |-> Empty]

\* lines 164-173: cache lookup; a truthy hit returns without a request
ReqStart(k, ttl) ==
  /\ subject = "request" /\ rq_pc = "idle"
  /\ get_cached_data(k)
  /\ rq_key' = k /\ rq_ttl' = ttl
  /\ rq_attempt' = 0 /\ rq_sent' = 0
  /\ rq_last' = NoResponse /\ rq_transient' = TRUE /\ rq_limited' = TRUE
  /\ IF truthy(cached_value(k))
     THEN rq_pc' = "done" /\ rq_result' = DataResult(cached_value(k))
     ELSE rq_pc' = "attempting" /\ rq_result' = NoResult
  /\ UNCHANGED <<subject, now, sc_cache, sc_expiry, ret, tracked>>

\* a loop body that also stores the error dict of a client error
ReqAttempt_caches_errors(r, w) ==
  /\ subject = "request" /\ rq_pc = "attempting"
  /\ rq_sent' = rq_sent + 1
  /\ rq_last' = r
  /\ rq_transient' = (rq_transient /\ TransientFailure(r))
  /\ rq_limited' = (rq_limited /\ classify(r) = "rate_limited")
  /\ IF classify(r) = "success"
     THEN /\ cache_data(rq_key, r.body, rq_ttl, w)
          /\ rq_result' = DataResult(r.body)
          /\ rq_pc' = "done"
     ELSE IF classify(r) = "client_error"
     THEN /\ cache_data(rq_key, "error", rq_ttl, w)
          /\ rq_result' = ErrorResult("Client error", r.status)
          /\ rq_pc' = "done"
     ELSE /\ UNCHANGED <<hl_cache, hl_expiry, hl_file>>
          /\ IF classify(r) = "bad_json"
             THEN rq_result' = ErrorResult("Invalid JSON response", 500) /\ rq_pc' = "done"
             ELSE IF classify(r) = "unexpected"
             THEN rq_result' = ErrorResult("Unexpected error", 500) /\ rq_pc' = "done"
             ELSE rq_result' = rq_result /\ rq_pc' = "sleeping"
  /\ UNCHANGED <<subject, now, sc_cache, sc_expiry, ret, tracked,
                 rq_key, rq_ttl, rq_attempt>>

\* lines 176-234: one pass of the loop body up to its return or its sleep
ReqAttempt(r, w) ==
  /\ subject = "request" /\ rq_pc = "attempting"
  /\ rq_sent' = rq_sent + 1
  /\ rq_last' = r
  /\ rq_transient' = (rq_transient /\ TransientFailure(r))
  /\ rq_limited' = (rq_limited /\ classify(r) = "rate_limited")
  /\ IF classify(r) = "success"
     THEN /\ cache_data(rq_key, r.body, rq_ttl, w)
          /\ rq_result' = DataResult(r.body)
          /\ rq_pc' = "done"
     ELSE /\ UNCHANGED <<hl_cache, hl_expiry, hl_file>>
          /\ IF classify(r) = "client_error"
             THEN rq_result' = ErrorResult("Client error", r.status) /\ rq_pc' = "done"
             ELSE IF classify(r) = "bad_json"
             THEN rq_result' = ErrorResult("Invalid JSON response", 500) /\ rq_pc' = "done"
             ELSE IF classify(r) = "unexpected"
             THEN rq_result' = ErrorResult("Unexpected error", 500) /\ rq_pc' = "done"
             ELSE rq_result' = rq_result /\ rq_pc' = "sleeping"
  /\ UNCHANGED <<subject, now, sc_cache, sc_expiry, ret, tracked,
                 rq_key, rq_ttl, rq_attempt>>

\* a loop that runs one pass more than the ceiling
ReqWake_one_more ==
  /\ subject = "request" /\ rq_pc = "sleeping"
  /\ rq_attempt' = rq_attempt + 1
  /\ IF rq_attempt + 1 <= max_attempts
     THEN rq_pc' = "attempting" /\ rq_result' = rq_result
     ELSE rq_pc' = "done"
          /\ rq_result' = ErrorResult("Request failed after retries", 503)
  /\ UNCHANGED <<cacheVars, rq_key, rq_ttl, rq_sent, rq_last, rq_transient,
                 rq_limited>>

\* asyncio.sleep(2 ** attempt) returns and the loop continues, or ends
\* (line 236) when the attempts are used up
ReqWake ==
  /\ subject = "request" /\ rq_pc = "sleeping"
  /\ rq_attempt' = rq_attempt + 1
  /\ IF rq_attempt + 1 < max_attempts
     THEN rq_pc' = "attempting" /\ rq_result' = rq_result
     ELSE rq_pc' = "done"
          /\ rq_result' = ErrorResult("Request failed after retries", 503)
  /\ UNCHANGED <<cacheVars, rq_key, rq_ttl, rq_sent, rq_last, rq_transient,
                 rq_limited>>

\* the caller takes the result; the client is ready for the next call
ReqReturn ==
  /\ subject = "request" /\ rq_pc = "done"
  /\ rq_pc' = "idle"
  /\ rq_result' = NoResult
  /\ rq_attempt' = 0 /\ rq_sent' = 0
  /\ rq_last' = NoResponse /\ rq_transient' = TRUE /\ rq_limited' = TRUE
  /\ UNCHANGED <<cacheVars, rq_key, rq_ttl>>

\* The (endpoint, params) pairs the modelled calls use; the cache entries of
\* the other keys are never touched by them.
RqKeys == {"k1"}

RequestInit ==
  /\ subject = "request"
  /\ now = 0
  /\ hl_cache = [k \in Keys |-> None]
  /\ hl_expiry = [k \in Keys |-> NoExpiry]
  /\ hl_file \in [Keys -> FileRecords]
  /\ \A k \in Keys \ RqKeys : hl_file[k] = NoFile
  /\ sc_cache = [k \in Keys |-> None]
  /\ sc_expiry = [k \in Keys |-> NoExpiry]
  /\ ret = NoRet
  /\ tracked = NoTrack
  /\ rq_pc = "idle" /\ rq_key = "k1" /\ rq_ttl = 1
  /\ rq_attempt = 0 /\ rq_sent = 0 /\ rq_result = NoResult
  /\ rq_last = NoResponse /\ rq_transient = TRUE /\ rq_limited = TRUE

RequestIdle ==
  /\ rq_pc = "idle" /\ rq_key = "k1" /\ rq_ttl = 1
  /\ rq_attempt = 0 /\ rq_sent = 0 /\ rq_result = NoResult
  /\ rq_last = NoResponse /\ rq_transient = TRUE /\ rq_limited = TRUE

\* ----------------------------------------------------- team id resolution
\* HighlightlyClient.resolve_team_id / get_all_teams (highlightly.py 664-795).
\* Each _make_request of the call is taken as a whole: it is served from the
\* request cache, or it issues between 1 and max_attempts upstream requests
\* and ends with a body or with a structured error.
Names == {"chiefs", "niners"}
Ids == {1, 2}
NoId == 0
\* an id that is not an int (a string, None)
BadId == -1
TeamLists == {<<>>, <<1>>, <<2>>, <<BadId>>}
\* the team upstream lists under an id
team_name(id) == IF id = 1 THEN "chiefs" ELSE "niners"
Bodies == [shape : {"dict", "list"}, data : TeamLists]
NoBody == [shape |-> "none", data |-> <<>>]
ErrorBody == [shape |-> "dict", data |-> <<>>]
ReqKeys == {"league", "page"} \cup Names
\* a body at the first attempt, a client error at the first attempt, or the
\* error that ends max_attempts failed attempts
Outcomes ==
  [sent : {1}, kind : {"data"}, body : Bodies]
    \cup [sent : {1, max_attempts}, kind : {"error"}, body : {ErrorBody}]

\* `if cached:` (line 171): a dict body is truthy, a bare list only if non-empty
truthy_body(b) == b # NoBody /\ (b.shape = "dict" \/ b.data # <<>>)

served_from_cache(k) == truthy_body(rs_reqcache[k])

request_result(k, o) ==
  IF served_from_cache(k) THEN rs_reqcache[k]
  ELSE IF o.kind = "data" THEN o.body ELSE ErrorBody

request_sent(k, o) == IF served_from_cache(k) THEN 0 ELSE o.sent

\* only a 2xx body is stored (line 195)
reqcache_after(k, o) ==
  IF ~served_from_cache(k) /\ o.kind = "data"
  THEN [rs_reqcache EXCEPT ![k] = o.body]
  ELSE rs_reqcache

\* line 755
data_warm(b) == b.data
\* line 693: a bare list counts as no data
page_data(b) == IF b.shape = "dict" THEN b.data ELSE <<>>

\* teams_all.json: a record that parses and has not expired, or nothing
\* usable (no file, an expired record, text that does not parse: lines
\* 672-683 go on to the fetch in all three cases)
NoTeamsFile == [state |-> "unusable", data |-> <<>>]
TeamsFiles == {NoTeamsFile} \cup [state : {"valid"}, data : TeamLists]

teams_file_after(data, w) ==
  IF w = "ok" THEN [state |-> "valid", data |-> data]
  ELSE IF w = "open_failed" THEN teams_file
  ELSE NoTeamsFile

\* lines 738-749: entry; the warm fetch is decided before the id cache is read
ResolveEnter(n) ==
  /\ rs_pc = "idle" /\ rs_calls < MaxResolves
  /\ rs_name' = n /\ rs_net' = 0 /\ rs_ret' = NoId
  /\ rs_calls' = rs_calls + 1
  /\ rs_pc' = IF teams_cache = <<>> THEN "warm" ELSE "lookup"
  /\ ts_result' = "none"
  /\ rs_failed' = (rs_failed /\ n = rs_name)
  /\ UNCHANGED <<teams_cache, team_id_cache, teams_file, rs_reqcache, rs_prev>>

\* lines 753-759: league-scoped warm fetch
ResolveWarm(o) ==
  /\ rs_pc = "warm"
  /\ rs_reqcache' = reqcache_after("league", o)
  /\ rs_net' = rs_net + request_sent("league", o)
  /\ IF data_warm(request_result("league", o)) # <<>>
     THEN teams_cache' = data_warm(request_result("league", o)) /\ rs_pc' = "lookup"
     ELSE teams_cache' = teams_cache /\ rs_pc' = "bootstrap"
  /\ UNCHANGED <<team_id_cache, teams_file, rs_name, rs_ret, rs_calls, rs_prev,
                 rs_failed, ts_result>>

\* lines 664-721: get_all_teams with an empty _teams_cache; lists here are
\* shorter than `limit`, so the pagination loop stops after its first page
ResolveBootstrap(o, w) ==
  /\ rs_pc = "bootstrap"
  /\ IF teams_file.state = "valid"
     THEN /\ teams_cache' = teams_file.data
          /\ UNCHANGED <<teams_file, rs_reqcache, rs_net>>
     ELSE /\ rs_reqcache' = reqcache_after("page", o)
          /\ rs_net' = rs_net + request_sent("page", o)
          /\ teams_cache' = page_data(request_result("page", o))
          /\ teams_file' = teams_file_after(page_data(request_result("page", o)), w)
  /\ rs_pc' = "lookup"
  /\ UNCHANGED <<team_id_cache, rs_name, rs_ret, rs_calls, rs_prev, rs_failed,
                 ts_result>>

\* lines 764-770: the in-process id cache
ResolveLookup ==
  /\ rs_pc = "lookup"
  /\ IF team_id_cache[rs_name] # NoId
     THEN rs_ret' = team_id_cache[rs_name] /\ rs_pc' = "done"
     ELSE rs_ret' = rs_ret /\ rs_pc' = "search"
  /\ UNCHANGED <<teams_cache, team_id_cache, teams_file, rs_reqcache, rs_name,
                 rs_net, rs_calls, rs_prev, rs_failed, ts_result>>

\* lines 772-795: name search; the first hit's id is kept only if it is an int
ResolveSearch(o) ==
  /\ rs_pc = "search"
  /\ rs_reqcache' = reqcache_after(rs_name, o)
  /\ rs_net' = rs_net + request_sent(rs_name, o)
  /\ LET result == request_result(rs_name, o).data
     IN IF result # <<>> /\ result[1] \in Ids
        THEN /\ team_id_cache' = [team_id_cache EXCEPT ![rs_name] = result[1]]
             /\ rs_ret' = result[1]
        ELSE /\ team_id_cache' = team_id_cache
             /\ rs_ret' = NoId
  /\ rs_pc' = "done"
  /\ UNCHANGED <<teams_cache, teams_file, rs_name, rs_calls, rs_prev,
                 rs_failed, ts_result>>

\* the caller takes the id: get_team_statistics (lines 1003-1008) and
\* get_head_to_head (lines 942-947) return [] when it is None, and go on to
\* their own request otherwise
ResolveReturn ==
  /\ rs_pc = "done"
  /\ rs_pc' = "idle"
  /\ ts_result' = IF rs_ret = NoId THEN "empty" ELSE "requested"
  /\ rs_failed' = (rs_ret = NoId)
  /\ rs_prev' = IF rs_prev[rs_name] = NoId /\ rs_ret # NoId
                THEN [rs_prev EXCEPT ![rs_name] = rs_ret] ELSE rs_prev
  /\ UNCHANGED <<teams_cache, team_id_cache, teams_file, rs_reqcache, rs_name,
                 rs_net, rs_ret, rs_calls>>

\* between two calls the 120-minute TTL of a cached /teams response runs
\* out (line 116)
ReqCacheExpire(k) ==
  /\ rs_pc = "idle"
  /\ rs_reqcache[k] # NoBody
  /\ rs_reqcache' = [rs_reqcache EXCEPT ![k] = NoBody]
  /\ rs_failed' = FALSE
  /\ UNCHANGED <<teams_cache, team_id_cache, teams_file, rs_pc, rs_name,
                 rs_net, rs_ret, rs_calls, rs_prev, ts_result>>

\* between two calls the 24 h of teams_all.json run out (line 677)
TeamsFileExpire ==
  /\ rs_pc = "idle"
  /\ teams_file.state = "valid"
  /\ teams_file' = NoTeamsFile
  /\ rs_failed' = FALSE
  /\ UNCHANGED <<teams_cache, team_id_cache, rs_reqcache, rs_pc, rs_name,
                 rs_net, rs_ret, rs_calls, rs_prev, ts_result>>

\* lines 62-66: a fresh client; the cache directory may hold teams_all.json
ResolveInit ==
  /\ teams_cache = <<>>
  /\ team_id_cache = [n \in Names |-> NoId]
  /\ teams_file \in TeamsFiles
  /\ rs_reqcache = [k \in ReqKeys |-> NoBody]
  /\ rs_pc = "idle" /\ rs_name = "chiefs" /\ rs_net = 0 /\ rs_ret = NoId
  /\ rs_calls = 0
  /\ rs_prev = [n \in Names |-> NoId]
  /\ rs_failed = FALSE /\ ts_result = "none"

ResolveIdle ==
  /\ teams_cache = <<>>
  /\ team_id_cache = [n \in Names |-> NoId]
  /\ teams_file = NoTeamsFile
  /\ rs_reqcache = [k \in ReqKeys |-> NoBody]
  /\ rs_pc = "idle" /\ rs_name = "chiefs" /\ rs_net = 0 /\ rs_ret = NoId
  /\ rs_calls = 0
  /\ rs_prev = [n \in Names |-> NoId]
  /\ rs_failed = FALSE /\ ts_result = "none"

\* ------------------------------------------------- head-to-head workflow
\* SportradarAgent.fetch_highlightly_data, head-to-head branch (agent.py
\* 321-539).  get_head_to_head is the environment here: it hands back the
\* list of matches upstream gave, or [] (also on a failed id resolution).
TeamNames == {"KC", "kc", "SF", "DAL"}
lower(n) == IF n = "KC" THEN "kc" ELSE IF n = "SF" THEN "sf"
            ELSE IF n = "DAL" THEN "dal" ELSE n
MatchIds == {1, BadId}
\* `enriched`: the sources whose statistics were attached to the match
Matches == [id : MatchIds, date : 1..MaxDate, enriched : {{}}]
UpstreamLists ==
  UNION {[1..n -> Matches] : n \in 0..MaxMatches}

\* line 323: the two lower-cased names, sorted
h2h_key(home, away) == {lower(home), lower(away)}
PairKeys == {h2h_key(a, b) : a, b \in TeamNames} \ {{lower(n)} : n \in TeamNames}

\* what get_head_to_head hands back (highlightly.py 938-979): the upstream
\* body with its matches, [] when an id could not be resolved (947), or the
\* error dict of _make_request, whose "data" is []
Branches == {"details", "stats"}
BranchOutcomes == {"ok_data", "ok_none", "error", "raised"}

H2HResponses ==
  [kind : {"ok"}, data : UpstreamLists]
    \cup [kind : {"unresolved", "error"}, data : {<<>>}]

\* an entry of _h2h_cache: dict.get gives None for a missing key
NoEntry == [present |-> FALSE, data |-> <<>>]
Entry(l) == [present |-> TRUE, data |-> l]

NoH2HResult == [data |-> <<>>, cache |-> FALSE, returned |-> FALSE]
H2HResult(d, c) == [data |-> d, cache |-> c, returned |-> TRUE]

\* a lookup that never finds the last-known-good entry
reuse_cached_never(k) == FALSE

\* line 335: `if cached:`
reuse_cached(k) == h2h_cache[k].present /\ h2h_cache[k].data # <<>>

\* an empty branch that stores the empty list it was given
cache_on_empty_stores(k) == [h2h_cache EXCEPT ![k] = Entry(<<>>)]

\* lines 333-362: no statement of the empty branches assigns _h2h_cache
cache_on_empty(k) == h2h_cache

\* line 380: max(h2h_data, key=parse_date_safe) is the first match with the
\* greatest date
latest_index(l) ==
  CHOOSE i \in 1..Len(l) :
    /\ \A j \in 1..Len(l) : l[j].date <= l[i].date
    /\ \A j \in 1..(i - 1) : l[j].date < l[i].date

\* lines 364-403: cache the positive result, pick the latest match, go on to
\* the enrichment when it has an integer id
h2h_positive(data) ==
  /\ h2h_cache' = [h2h_cache EXCEPT ![hh_key] = Entry(data)]
  /\ hh_lkg' = [hh_lkg EXCEPT ![hh_key] = data]
  /\ hh_data' = data
  /\ IF data[latest_index(data)].id # BadId
     THEN hh_pc' = "enrich" /\ hh_result' = hh_result
     ELSE hh_pc' = "done"
          /\ hh_result' = H2HResult(<<data[latest_index(data)]>>, FALSE)

\* lines 321-325: the call is issued
H2HStart(home, away) ==
  /\ hh_pc = "idle" /\ hh_calls < MaxH2HCalls
  /\ lower(home) # lower(away)
  /\ hh_key' = h2h_key(home, away)
  /\ hh_pc' = "first"
  /\ hh_data' = <<>> /\ hh_result' = NoH2HResult /\ hh_empty' = "no"
  /\ hh_calls' = hh_calls + 1
  /\ hh_gets' = 1 /\ hh_hard' = FALSE
  /\ UNCHANGED <<h2h_cache, hh_lkg, hh_told>>

\* lines 326-343 and 364-403: the first response
H2HFirst(resp) ==
  /\ hh_pc = "first"
  /\ hh_empty' = IF resp.data # <<>> THEN "no"
                 ELSE IF hh_lkg[hh_key] # <<>> THEN "reuse" ELSE "retry"
  /\ hh_hard' = (resp.kind # "ok")
  /\ IF resp.data # <<>>
     THEN h2h_positive(resp.data) /\ hh_gets' = hh_gets
     ELSE /\ h2h_cache' = cache_on_empty(hh_key)
          /\ UNCHANGED <<hh_lkg, hh_data>>
          /\ IF reuse_cached(hh_key)
             THEN hh_pc' = "done" /\ hh_gets' = hh_gets
                  /\ hh_result' = H2HResult(h2h_cache[hh_key].data, TRUE)
             ELSE hh_pc' = "sleeping" /\ hh_result' = hh_result
                  /\ hh_gets' = hh_gets + 1
  /\ UNCHANGED <<hh_key, hh_calls, hh_told>>

\* a retry that, still empty, sleeps and asks a third time
H2HRetry_again(resp) ==
  /\ hh_pc = "sleeping"
  /\ hh_hard' = (hh_hard \/ resp.kind # "ok")
  /\ IF resp.data # <<>>
     THEN h2h_positive(resp.data) /\ hh_gets' = hh_gets
     ELSE /\ h2h_cache' = cache_on_empty(hh_key)
          /\ UNCHANGED <<hh_lkg, hh_data>>
          /\ IF hh_gets < 3
             THEN hh_pc' = "sleeping" /\ hh_gets' = hh_gets + 1
                  /\ hh_result' = hh_result
             ELSE hh_pc' = "done" /\ hh_gets' = hh_gets
                  /\ hh_result' = H2HResult(<<>>, FALSE)
  /\ UNCHANGED <<hh_key, hh_calls, hh_empty, hh_told>>

\* lines 345-362: after asyncio.sleep(0.5), the response of the one retry
H2HRetry(resp) ==
  /\ hh_pc = "sleeping"
  /\ hh_hard' = (hh_hard \/ resp.kind # "ok")
  /\ IF resp.data # <<>>
     THEN h2h_positive(resp.data)
     ELSE /\ h2h_cache' = cache_on_empty(hh_key)
          /\ UNCHANGED <<hh_lkg, hh_data>>
          /\ hh_pc' = "done"
          /\ hh_result' = H2HResult(<<>>, FALSE)
  /\ UNCHANGED <<hh_key, hh_calls, hh_empty, hh_gets, hh_told>>

\* lines 405-539: details and statistics are attached to latest_match, which
\* is an element of the list object held in _h2h_cache; src are the sources
\* that had statistics for the match (the join itself is SpecEnrich)
H2HEnrich(src) ==
  /\ hh_pc = "enrich"
  /\ LET i == latest_index(hh_data)
         m == [hh_data[i] EXCEPT !.enriched = src]
     IN /\ hh_data' = [hh_data EXCEPT ![i] = m]
        /\ h2h_cache' = [h2h_cache EXCEPT ![hh_key] = Entry([hh_data EXCEPT ![i] = m])]
        /\ hh_result' = H2HResult(<<m>>, FALSE)
  /\ hh_told' = [hh_told EXCEPT ![hh_key] = @ \cup src]
  /\ hh_pc' = "done"
  /\ UNCHANGED <<hh_key, hh_calls, hh_empty, hh_lkg, hh_gets, hh_hard>>

\* the caller takes the result; the locals of the call are gone
H2HReturn ==
  /\ hh_pc = "done"
  /\ hh_pc' = "idle"
  /\ hh_data' = <<>> /\ hh_result' = NoH2HResult /\ hh_empty' = "no"
  /\ hh_gets' = 0 /\ hh_hard' = FALSE
  /\ UNCHANGED <<h2h_cache, hh_key, hh_calls, hh_lkg, hh_told>>

\* agent.py 59: a fresh agent
H2HInit ==
  /\ h2h_cache = [k \in PairKeys |-> NoEntry]
  /\ hh_pc = "idle"
  /\ hh_key \in PairKeys
  /\ hh_data = <<>> /\ hh_result = NoH2HResult
  /\ hh_calls = 0 /\ hh_empty = "no"
  /\ hh_gets = 0 /\ hh_hard = FALSE
  /\ hh_lkg = [k \in PairKeys |-> <<>>]
  /\ hh_told = [k \in PairKeys |-> {}]

H2HIdle ==
  /\ h2h_cache = [k \in PairKeys |-> NoEntry]
  /\ hh_pc = "idle"
  /\ hh_key = {"kc", "sf"}
  /\ hh_data = <<>> /\ hh_result = NoH2HResult
  /\ hh_calls = 0 /\ hh_empty = "no"
  /\ hh_gets = 0 /\ hh_hard = FALSE
  /\ hh_lkg = [k \in PairKeys |-> <<>>]
  /\ hh_told = [k \in PairKeys |-> {}]

\* ------------------------------------------- enrichment of the latest match
\* fetch_highlightly_data, agent.py 405-539: the /matches/{id} fetch and the
\* /statistics/{id} fetch of the latest head-to-head match, and their join.
\* lines 401-403: only a match with an integer id is enriched
EnrichMatchIds == {1, 2}
EnrichMatches == [id : EnrichMatchIds, date : 1..MaxDate, enriched : {{}}]

\* lines 405-417: asyncio.gather(details_task, stats_task,
\* return_exceptions=True): each fetch ends on its own, with a payload that
\* has statistics for the match ("ok_data"), a payload without any
\* ("ok_none"), an error dict ("error") or an exception ("raised")
EnrichBranchDone(b, o) ==
  /\ en_pc = "gather" /\ en_branch[b] = "pending"
  /\ en_branch' = [en_branch EXCEPT ![b] = o]
  /\ UNCHANGED <<en_pc, en_match, en_result>>

\* a join that drops every contribution when a fetch failed
merged_sources_fail_fast(br) ==
  IF \E b \in Branches : br[b] \in {"error", "raised"}
  THEN {} ELSE {b \in Branches : br[b] = "ok_data"}

\* lines 412-417 and 427-523: an exception becomes {}, an error dict has no
\* statistics; what the other fetch brought is attached all the same
merged_sources(br) == {b \in Branches : br[b] = "ok_data"}

\* lines 409-539: both fetches have ended; attach and return the latest match
EnrichJoin ==
  /\ en_pc = "gather"
  /\ \A b \in Branches : en_branch[b] # "pending"
  /\ en_match' = [en_match EXCEPT !.enriched = merged_sources(en_branch)]
  /\ en_result' = H2HResult(<<en_match'>>, FALSE)
  /\ en_pc' = "done"
  /\ UNCHANGED en_branch

\* lines 368-409: a request reaches the enrichment with its latest match and
\* starts both fetches
EnrichStart(m) ==
  /\ en_pc \in {"idle", "done"}
  /\ en_pc' = "gather"
  /\ en_match' = m
  /\ en_branch' = [b \in Branches |-> "pending"]
  /\ en_result' = NoH2HResult

EnrichIdle ==
  /\ en_pc = "idle"
  /\ en_match = [id |-> 1, date |-> 1, enriched |-> {}]
  /\ en_branch = [b \in Branches |-> "pending"]
  /\ en_result = NoH2HResult

\* ------------------------------------- payload shapes of the reconciliation
\* _extract_football_stats, agent.py 2872-3214, by the types of what the
\* match payload holds.  A record is modelled by the set of its keys.
\* A team object: key missing, a non-dict value ("str"), a dict whose
\* statistics hold known keys ("dict") or also an unknown key ("dict_extra").
TeamShapes == {"absent", "str", "dict", "dict_extra"}
ExtraKey == "rushingYards"

\* An element of match["statistics"]: a non-dict ("str"), or a dict with a
\* `team` (missing, a non-dict, or a dict named as the home / away side) and
\* a `statistics` list of dicts ("ok") or holding a non-dict ("bad"); <<>>
\* stands for a missing, non-list or empty match["statistics"]
EntryTeams == {"absent", "str", "home", "away"}
StatEntries == {[kind |-> "str", team |-> "absent", items |-> "ok"]}
               \cup [kind : {"dict"}, team : EntryTeams, items : {"ok", "bad"}]
StatLists == {<<>>} \cup {<<e>> : e \in StatEntries}
BoxShapes == {"absent", "dict", "list_bad"}

NonDictMatch == [dict |-> FALSE, homeTeam |-> "absent", home |-> "absent",
                 awayTeam |-> "absent", away |-> "absent",
                 statistics |-> <<>>, boxScores |-> "absent"]
MatchShapes ==
  {NonDictMatch} \cup
  [dict : {TRUE}, homeTeam : TeamShapes, home : TeamShapes,
   awayTeam : TeamShapes, away : TeamShapes,
   statistics : StatLists, boxScores : BoxShapes]

NoExRet == [kind |-> "none", home |-> {}, away |-> {}]
Returned(h, a) == [kind |-> "returned", home |-> h, away |-> a]
Raised == [kind |-> "raised", home |-> {}, away |-> {}]

\* `safe_get(match, a) or safe_get(match, b) or {}`: the first truthy value
team_obj(a, b) ==
  IF a # "absent" THEN a ELSE IF b # "absent" THEN b ELSE "empty_dict"

has_get(t) == t \in {"dict", "dict_extra", "empty_dict"}

\* lines 2941-2956 on the keys: a key of the source the target lacks is added
merge_preserve_keys(target, t) ==
  IF t = "dict_extra" THEN target \cup {ExtraKey} ELSE target

\* lines 3156-3164: entry.get("team") on each element in turn; a non-dict
\* element or a non-dict team has no .get
pick_raises(l) ==
  \E i \in 1..Len(l) : l[i].kind = "str" \/ l[i].team = "str"

\* lines 3158-3163: `target in team_name or team_name in target` with a
\* non-empty target; a missing team gives team_name "" and "" is in any
\* string
picked(l, side) ==
  IF \E i \in 1..Len(l) : l[i].team \in {side, "absent"}
  THEN {l[CHOOSE i \in 1..Len(l) : l[i].team \in {side, "absent"}]}
  ELSE {}

\* lines 3168-3169: the side's name is "" unless its team object is a dict
side_name_set(t) == t \in {"dict", "dict_extra"}

\* lines 2876-2885: a non-dict match returns two all-zero records at once
ExtractGuard(match) ==
  /\ ex_pc = "idle"
  /\ ex_match' = match
  /\ IF ~match.dict
     THEN ex_pc' = "done" /\ ex_ret' = Returned(Fields, Fields)
     ELSE ex_pc' = "team_blocks" /\ ex_ret' = NoExRet
  /\ ex_home' = Fields /\ ex_away' = Fields

\* a caller hands a payload to _extract_football_stats
ExtractCall ==
  /\ ex_pc = "idle"
  /\ \E match \in MatchShapes : ExtractGuard(match)

\* lines 2887-3007: scores, the guarded audit block, update_from_team_block
\* (returns on a non-dict), then home_team_obj.get("statistics", {}) and
\* away_team_obj.get("statistics", {}) outside any try
ExtractTeamBlocks ==
  /\ ex_pc = "team_blocks"
  /\ LET h == team_obj(ex_match.homeTeam, ex_match.home)
         a == team_obj(ex_match.awayTeam, ex_match.away)
     IN IF has_get(h) /\ has_get(a)
        THEN /\ ex_home' = merge_preserve_keys(ex_home, h)
             /\ ex_away' = merge_preserve_keys(ex_away, a)
             /\ ex_pc' = "box_scores" /\ ex_ret' = ex_ret
        ELSE /\ ex_home' = IF has_get(h) THEN merge_preserve_keys(ex_home, h)
                           ELSE ex_home
             /\ ex_away' = ex_away
             /\ ex_pc' = "done" /\ ex_ret' = Raised
  /\ UNCHANGED ex_match

\* lines 3009-3145: the boxScores block runs inside try/except and writes
\* only the five statistic keys; preserve_enriched returns on a non-dict
ExtractBoxScores ==
  /\ ex_pc = "box_scores"
  /\ ex_home' = ex_home \cup (IF ex_match.boxScores = "dict" THEN StatKeys ELSE {})
  /\ ex_away' = ex_away \cup (IF ex_match.boxScores = "dict" THEN StatKeys ELSE {})
  /\ ex_pc' = "match_level"
  /\ UNCHANGED <<ex_match, ex_ret>>

\* lines 3147-3200: pick_from_list for both sides, then map_stats, whose
\* it.get runs on every element of the picked entry's statistics
ExtractMatchLevel ==
  /\ ex_pc = "match_level"
  /\ LET l == ex_match.statistics
         hn == side_name_set(team_obj(ex_match.home, ex_match.homeTeam))
         an == side_name_set(team_obj(ex_match.away, ex_match.awayTeam))
         he == IF hn THEN picked(l, "home") ELSE {}
         ae == IF an THEN picked(l, "away") ELSE {}
     IN IF l # <<>> /\ (pick_raises(l) \/ \E e \in he \cup ae : e.items = "bad")
        THEN ex_pc' = "done" /\ ex_ret' = Raised
        ELSE ex_pc' = "finish" /\ ex_ret' = ex_ret
  /\ UNCHANGED <<ex_match, ex_home, ex_away>>

\* lines 3202-3214: setdefault of the six fields, return home, away
ExtractReturn ==
  /\ ex_pc = "finish"
  /\ ex_home' = ex_home \cup Fields
  /\ ex_away' = ex_away \cup Fields
  /\ ex_ret' = Returned(ex_home', ex_away')
  /\ ex_pc' = "done"
  /\ UNCHANGED ex_match

ExtractIdle ==
  /\ ex_pc = "idle"
  /\ ex_match = NonDictMatch
  /\ ex_home = {} /\ ex_away = {}
  /\ ex_ret = NoExRet

\* ------------------------------------------- selection of the latest match
\* fetch_highlightly_data, agent.py 367-382.  A `date` is an ISO string with
\* a time zone ("aware"), one without ("naive"), or missing / unparsable;
\* `date` orders the instants.
DateValues ==
  [kind : {"aware", "naive"}, date : 1..MaxDate]
    \cup {[kind |-> "missing", date |-> 0]}
DateLists == UNION {[1..n -> DateValues] : n \in 1..MaxDated}

\* lines 368-375: datetime.fromisoformat keeps the offset; a missing or
\* unparsable date gives datetime.min, which has no time zone
parse_date_safe(m) == [date |-> m.date, aware |-> m.kind = "aware"]

parsed(l) == [i \in 1..Len(l) |-> parse_date_safe(l[i])]

\* line 380: max() compares the keys; comparing an offset-aware datetime
\* with an offset-naive one raises TypeError
max_raises(l) == \E i, j \in 1..Len(l) : parsed(l)[i].aware # parsed(l)[j].aware

\* lines 377-382: max(h2h_data, key=parse_date_safe), and h2h_data[0] when
\* max raised
latest_match(l) == IF max_raises(l) THEN 1 ELSE latest_index(parsed(l))

\* line 366-367: a non-empty list reaches the selection
LatestCall(l) ==
  /\ lt_pc = "idle"
  /\ lt_dates' = l /\ lt_pc' = "max" /\ lt_pick' = 0

\* lines 377-382
LatestPick ==
  /\ lt_pc = "max"
  /\ lt_pick' = latest_match(lt_dates)
  /\ lt_pc' = "done"
  /\ UNCHANGED lt_dates

LatestStart ==
  /\ lt_pc = "idle"
  /\ \E l \in DateLists : LatestCall(l)

LatestIdle == lt_pc = "idle" /\ lt_dates = <<>> /\ lt_pick = 0

\* ------------------------------------- concurrent resolves of one cache key
\* Requests of the server run as coroutines over the one shared client
\* (get_highlightly_client); each resolve_team_id runs from its entry to
\* `await self.client.get` (highlightly.py 185) without a suspension point,
\* and from the response to its return without another one.  The key is
\* rs_name; the client's team list is already loaded.
Callers == 1..MaxCallers

\* lines 779-789: the first hit's id, stored only if it is an int
first_hit_id(b) ==
  IF b.data # <<>> /\ b.data[1] \in Ids THEN b.data[1] ELSE NoId

id_cache_after(b) ==
  IF first_hit_id(b) # NoId
  THEN [team_id_cache EXCEPT ![rs_name] = first_hit_id(b)]
  ELSE team_id_cache

\* lines 764-777 and 169-173: id cache, then the request cache, then the
\* request goes out
RaceEnter(c) ==
  /\ rc_pc[c] = "idle" /\ teams_cache # <<>>
  /\ IF team_id_cache[rs_name] # NoId
     THEN /\ rc_ret' = [rc_ret EXCEPT ![c] = team_id_cache[rs_name]]
          /\ rc_pc' = [rc_pc EXCEPT ![c] = "done"]
          /\ UNCHANGED team_id_cache
     ELSE IF served_from_cache(rs_name)
     THEN /\ team_id_cache' = id_cache_after(rs_reqcache[rs_name])
          /\ rc_ret' = [rc_ret EXCEPT ![c] = first_hit_id(rs_reqcache[rs_name])]
          /\ rc_pc' = [rc_pc EXCEPT ![c] = "done"]
     ELSE /\ rc_pc' = [rc_pc EXCEPT ![c] = "flight"]
          /\ UNCHANGED <<team_id_cache, rc_ret>>
  /\ UNCHANGED <<teams_cache, teams_file, rs_reqcache, rs_pc, rs_name, rs_net,
                 rs_ret, rs_calls, rs_prev, rs_failed, ts_result>>

\* lines 185-236 and 779-795: the request of a call in flight ends; a 2xx
\* body is cached and its first hit stored
RaceResume(c, o) ==
  /\ rc_pc[c] = "flight"
  /\ LET result == IF o.kind = "data" THEN o.body ELSE ErrorBody
     IN /\ rs_reqcache' = IF o.kind = "data"
                          THEN [rs_reqcache EXCEPT ![rs_name] = o.body]
                          ELSE rs_reqcache
        /\ team_id_cache' = id_cache_after(result)
        /\ rc_ret' = [rc_ret EXCEPT ![c] = first_hit_id(result)]
  /\ rc_pc' = [rc_pc EXCEPT ![c] = "done"]
  /\ UNCHANGED <<teams_cache, teams_file, rs_pc, rs_name, rs_net, rs_ret,
                 rs_calls, rs_prev, rs_failed, ts_result>>

\* the caller has its answer; the coroutine may be used for a later call
RaceReturn(c) ==
  /\ rc_pc[c] = "done"
  /\ rc_pc' = [rc_pc EXCEPT ![c] = "idle"]
  /\ rc_ret' = [rc_ret EXCEPT ![c] = NoId]
  /\ UNCHANGED resolveVars

\* the TTL of the cached /teams response runs out
RaceExpire ==
  /\ ReqCacheExpire(rs_name)
  /\ UNCHANGED raceVars

RaceIdle ==
  /\ rc_pc = [c \in Callers |-> "idle"]
  /\ rc_ret = [c \in Callers |-> NoId]

\* lines 1120-1137: the client after warm_highlightly_cache loaded the teams
RaceInit ==
  /\ teams_cache = <<1>>
  /\ team_id_cache = [n \in Names |-> NoId]
  /\ teams_file = NoTeamsFile
  /\ rs_reqcache = [k \in ReqKeys |-> NoBody]
  /\ rs_pc = "idle" /\ rs_name = "chiefs" /\ rs_net = 0 /\ rs_ret = NoId
  /\ rs_calls = 0
  /\ rs_prev = [n \in Names |-> NoId]
  /\ rs_failed = FALSE /\ ts_result = "none"
  /\ RaceIdle

\* ======================================================== specifications
\* Each machine runs while the variables of the others rest.
MergeIdle == mstage = "start" /\ teamStats = NoStats /\ out = empty
DetailsIdle == dstage = "entry" /\ tsa = NoStats
                /\ details = CHOOSE d \in DetailsTdInputs : TRUE

CacheIdle ==
  /\ subject = "none"
  /\ now = 0
  /\ hl_cache = [k \in Keys |-> None]
  /\ hl_expiry = [k \in Keys |-> NoExpiry]
  /\ hl_file = [k \in Keys |-> NoFile]
  /\ sc_cache = [k \in Keys |-> None]
  /\ sc_expiry = [k \in Keys |-> NoExpiry]
  /\ ret = NoRet
  /\ tracked = NoTrack

DetailsRest == <<mergeVars, cacheVars, requestVars, resolveVars, h2hVars, enrichVars, extractVars, latestVars, raceVars>>
MergeRest == <<detailVars, cacheVars, requestVars, resolveVars, h2hVars, enrichVars, extractVars, latestVars, raceVars>>
CacheRest == <<mergeVars, detailVars, requestVars, resolveVars, h2hVars, enrichVars, extractVars, latestVars, raceVars>>
RequestRest == <<mergeVars, detailVars, resolveVars, h2hVars, enrichVars, extractVars, latestVars, raceVars>>
EnrichRest == <<mergeVars, detailVars, cacheVars, requestVars, resolveVars,
                h2hVars, extractVars, latestVars, raceVars>>
LatestRest == <<mergeVars, detailVars, cacheVars, requestVars, resolveVars,
                h2hVars, enrichVars, extractVars, raceVars>>
RaceRest == <<mergeVars, detailVars, cacheVars, requestVars, h2hVars,
              enrichVars, extractVars, latestVars>>
ShapeRest == <<mergeVars, detailVars, cacheVars, requestVars, resolveVars,
               h2hVars, enrichVars, latestVars, raceVars>>
ResolveRest == <<mergeVars, detailVars, cacheVars, requestVars, h2hVars, enrichVars, extractVars, latestVars, raceVars>>
H2HRest == <<mergeVars, detailVars, cacheVars, requestVars, resolveVars, enrichVars, extractVars, latestVars, raceVars>>

DetailsInitial == DetailsInit /\ MergeIdle /\ CacheIdle /\ RequestIdle
                    /\ ResolveIdle /\ H2HIdle /\ EnrichIdle /\ ExtractIdle /\ LatestIdle /\ RaceIdle

DetailsNext ==
  \/ DetailsEarlyReturn /\ UNCHANGED DetailsRest
  \/ DetailsParseOverall /\ UNCHANGED DetailsRest
  \/ DetailsDerive /\ UNCHANGED DetailsRest
  \/ DetailsBoxTp /\ UNCHANGED DetailsRest
  \/ DetailsCompletion /\ UNCHANGED DetailsRest

SpecDetails == DetailsInitial /\ [][DetailsNext]_vars

MergeInitial == MergeInit /\ DetailsIdle /\ CacheIdle /\ RequestIdle
                    /\ ResolveIdle /\ H2HIdle /\ EnrichIdle /\ ExtractIdle /\ LatestIdle /\ RaceIdle

MergeNext ==
  \/ Enrich /\ UNCHANGED MergeRest
  \/ TdEnrich /\ UNCHANGED MergeRest
  \/ ExtractStart /\ UNCHANGED MergeRest
  \/ TeamBlock /\ UNCHANGED MergeRest
  \/ MergePreserve /\ UNCHANGED MergeRest
  \/ BoxScore /\ UNCHANGED MergeRest
  \/ PreserveEnriched /\ UNCHANGED MergeRest
  \/ MapStats /\ UNCHANGED MergeRest

SpecMerge == MergeInitial /\ [][MergeNext]_vars

CacheInitial == CacheInit /\ MergeIdle /\ DetailsIdle /\ RequestIdle
                    /\ ResolveIdle /\ H2HIdle /\ EnrichIdle /\ ExtractIdle /\ LatestIdle /\ RaceIdle

CacheNext ==
  \/ \E k \in Keys, v \in Values, ttl \in Ttls, w \in WriteOutcomes :
       HLSet(k, v, ttl, w) /\ UNCHANGED CacheRest
  \/ \E k \in Keys : HLGet(k) /\ UNCHANGED CacheRest
  \/ \E k \in Keys : SCGet(k) /\ UNCHANGED CacheRest
  \/ \E k \in Keys, v \in Values, ttl \in Ttls :
       SCSet(k, v, ttl) /\ UNCHANGED CacheRest
  \/ \E k \in Keys : SCDelete(k) /\ UNCHANGED CacheRest
  \/ SCClear /\ UNCHANGED CacheRest
  \/ SCCleanup /\ UNCHANGED CacheRest
  \/ Tick /\ UNCHANGED CacheRest

SpecCache == CacheInitial /\ [][CacheNext]_vars

RequestInitial == RequestInit /\ MergeIdle /\ DetailsIdle
                    /\ ResolveIdle /\ H2HIdle /\ EnrichIdle /\ ExtractIdle /\ LatestIdle /\ RaceIdle

RequestStep ==
  \/ \E r \in Responses, w \in WriteOutcomes :
       ReqAttempt(r, w) /\ UNCHANGED RequestRest
  \/ ReqWake /\ UNCHANGED RequestRest

RequestNext ==
  \/ \E k \in RqKeys, ttl \in Ttls :
       ReqStart(k, ttl) /\ UNCHANGED RequestRest
  \/ RequestStep
  \/ ReqReturn /\ UNCHANGED RequestRest
  \/ Tick /\ UNCHANGED <<requestVars, RequestRest>>

SpecRequest == RequestInitial /\ [][RequestNext]_vars

\* The event loop resumes every awaited request and sleep: the HTTP client
\* has a 30 s timeout (highlightly.py 50) and every sleep is finite.
SpecRequestFair == SpecRequest /\ WF_vars(RequestStep)

ResolveInitial == ResolveInit /\ MergeIdle /\ DetailsIdle /\ CacheIdle
                    /\ RequestIdle /\ H2HIdle /\ EnrichIdle /\ ExtractIdle /\ LatestIdle /\ RaceIdle

ResolveNext ==
  \/ \E n \in Names : ResolveEnter(n) /\ UNCHANGED ResolveRest
  \/ \E o \in Outcomes : ResolveWarm(o) /\ UNCHANGED ResolveRest
  \/ \E o \in Outcomes, w \in WriteOutcomes :
       ResolveBootstrap(o, w) /\ UNCHANGED ResolveRest
  \/ ResolveLookup /\ UNCHANGED ResolveRest
  \/ \E o \in Outcomes : ResolveSearch(o) /\ UNCHANGED ResolveRest
  \/ ResolveReturn /\ UNCHANGED ResolveRest
  \/ \E k \in ReqKeys : ReqCacheExpire(k) /\ UNCHANGED ResolveRest
  \/ TeamsFileExpire /\ UNCHANGED ResolveRest

SpecResolve == ResolveInitial /\ [][ResolveNext]_vars

H2HInitial == H2HInit /\ MergeIdle /\ DetailsIdle /\ CacheIdle
                /\ RequestIdle /\ ResolveIdle /\ EnrichIdle /\ ExtractIdle /\ LatestIdle /\ RaceIdle

H2HNext ==
  \/ \E home, away \in TeamNames : H2HStart(home, away) /\ UNCHANGED H2HRest
  \/ \E resp \in H2HResponses : H2HFirst(resp) /\ UNCHANGED H2HRest
  \/ \E resp \in H2HResponses : H2HRetry(resp) /\ UNCHANGED H2HRest
  \/ \E src \in SUBSET Branches : H2HEnrich(src) /\ UNCHANGED H2HRest
  \/ H2HReturn /\ UNCHANGED H2HRest

SpecH2H == H2HInitial /\ [][H2HNext]_vars

EnrichInitial == EnrichIdle /\ MergeIdle /\ DetailsIdle /\ CacheIdle
                   /\ RequestIdle /\ ResolveIdle /\ H2HIdle /\ ExtractIdle /\ LatestIdle /\ RaceIdle

EnrichNext ==
  \/ \E b \in Branches, o \in BranchOutcomes :
       EnrichBranchDone(b, o) /\ UNCHANGED EnrichRest
  \/ EnrichJoin /\ UNCHANGED EnrichRest
  \/ \E m \in EnrichMatches : EnrichStart(m) /\ UNCHANGED EnrichRest

SpecEnrich == EnrichInitial /\ [][EnrichNext]_vars

ShapeInitial == ExtractIdle /\ MergeIdle /\ DetailsIdle /\ CacheIdle
                  /\ RequestIdle /\ ResolveIdle /\ H2HIdle /\ EnrichIdle
                  /\ LatestIdle /\ RaceIdle

ShapeNext ==
  \/ ExtractCall /\ UNCHANGED ShapeRest
  \/ ExtractTeamBlocks /\ UNCHANGED ShapeRest
  \/ ExtractBoxScores /\ UNCHANGED ShapeRest
  \/ ExtractMatchLevel /\ UNCHANGED ShapeRest
  \/ ExtractReturn /\ UNCHANGED ShapeRest

SpecShape == ShapeInitial /\ [][ShapeNext]_vars

LatestInitial == LatestIdle /\ MergeIdle /\ DetailsIdle /\ CacheIdle
                   /\ RequestIdle /\ ResolveIdle /\ H2HIdle /\ EnrichIdle
                   /\ ExtractIdle /\ RaceIdle

LatestNext ==
  \/ LatestStart /\ UNCHANGED LatestRest
  \/ LatestPick /\ UNCHANGED LatestRest

SpecLatest == LatestInitial /\ [][LatestNext]_vars

RaceInitial == RaceInit /\ MergeIdle /\ DetailsIdle /\ CacheIdle
                 /\ RequestIdle /\ H2HIdle /\ EnrichIdle /\ ExtractIdle
                 /\ LatestIdle

RaceNext ==
  \/ \E c \in Callers : RaceEnter(c) /\ UNCHANGED RaceRest
  \/ \E c \in Callers, o \in Outcomes : RaceResume(c, o) /\ UNCHANGED RaceRest
  \/ \E c \in Callers : RaceReturn(c) /\ UNCHANGED RaceRest
  \/ RaceExpire /\ UNCHANGED RaceRest

SpecRace == RaceInitial /\ [][RaceNext]_vars

\* ================================================================ claims

\* C1: while a team's StatRecord is built, a candidate value of zero never
\* replaces an existing non-zero value of any field, neither in the record
\* under construction nor in the statistics the head-to-head enrichment
\* writes onto the latest match.
C1_ZeroNeverReplacesNonZero ==
  [][ /\ \A k \in Fields : out[k] # 0 => out'[k] # 0
      /\ \A k \in StatKeys : teamStats[k] > 0 => teamStats'[k] # 0 ]_vars

\* C2: no field regresses over the merge steps: touchdowns only grows or
\* stays equal, every other field is held once it left its default.
C2_NoFieldRegresses ==
  [][ /\ out'["touchdowns"] >= out["touchdowns"]
      /\ \A k \in Fields \ {"touchdowns"} : out[k] # 0 => out'[k] = out[k]
      /\ (teamStats["touchdowns"] > 0 =>
            teamStats'["touchdowns"] >= teamStats["touchdowns"])
      /\ \A k \in StatKeys \ {"touchdowns"} :
            teamStats[k] > 0 => teamStats'[k] = teamStats[k] ]_vars

\* C3: with one reporting path at touchdowns=2, the box-score path at 0 and
\* the top-performers path at 3, the reconciled touchdowns of an identified
\* team is 3.
PathAReportsTwo ==
  \/ (details.overall # NoStats /\ details.overall["touchdowns"] = 2)
  \/ derived_tds(details) = 2

C3_ScenarioYieldsThree ==
  (dstage = "done" /\ details.hasAbbr /\ PathAReportsTwo
     /\ details.box = 0 /\ details.tp = 3)
  => tsa["touchdowns"] = 3

\* C4: each merge step is idempotent: applying it twice with the same source
\* payload gives the record that applying it once gives.
C4_MergeIdempotent ==
  /\ mstage = "scored" =>
       update_from_team_block(teamStats, update_from_team_block(teamStats, out))
         = update_from_team_block(teamStats, out)
  /\ mstage = "team_block" =>
       merge_preserve(merge_preserve(out, teamStats), teamStats)
         = merge_preserve(out, teamStats)
  /\ mstage = "merged" =>
       \A items \in ItemLists :
         box_score_merge(box_score_merge(out, items), items)
           = box_score_merge(out, items)
  /\ mstage = "preserved" =>
       \A items \in ItemLists :
         map_stats(items, map_stats(items, out)) = map_stats(items, out)

\* C8: after set(k, v, ttl) and no later write of k, get(k) returns v while
\* the TTL has not elapsed and absent once it has, in the request client's
\* two-tier cache and in SimpleCache.
C8_SetThenGet ==
  (ret.op = "get" /\ tracked.who = subject /\ tracked.k = ret.k)
  => IF now < tracked.at + tracked.ttl
     THEN ret.v = tracked.v
     ELSE ret.v = None

\* C9: a read never returns a value whose expiresAt is in the past; after a
\* read of k the in-process maps hold no expired entry for k and, when the
\* read went on to the durable tier, no expired durable record is left (the
\* read evicted what it found expired); cleanup_expired removes exactly the
\* expired entries and leaves the others unchanged.
C9_ReadFresh ==
  (ret.op = "get" /\ ret.v # None) => ret.exp >= now

C9_ReadEvicts ==
  ret.op = "get" =>
    /\ subject = "highlightly" =>
         /\ hl_expiry[ret.k] # NoExpiry => hl_expiry[ret.k] >= now
         /\ (hl_cache[ret.k] = None) <=> (hl_expiry[ret.k] = NoExpiry)
         /\ (hl_expiry[ret.k] = NoExpiry /\ hl_file[ret.k] \notin {NoFile, Corrupt})
              => hl_file[ret.k].expires_at >= now
    /\ subject = "simple" =>
         /\ sc_expiry[ret.k] # NoExpiry => sc_expiry[ret.k] >= now
         /\ (sc_cache[ret.k] = None) <=> (sc_expiry[ret.k] = NoExpiry)

C9_CleanupExact ==
  ret'.op = "cleanup" =>
    \A k \in Keys :
      IF sc_expiry[k] # NoExpiry /\ sc_expiry[k] < now
      THEN sc_cache'[k] = None /\ sc_expiry'[k] = NoExpiry
      ELSE sc_cache'[k] = sc_cache[k] /\ sc_expiry'[k] = sc_expiry[k]

C6_Safe ==
  /\ rq_sent <= 4
  /\ (rq_pc = "done" /\ rq_sent > 0 /\ rq_transient)
       => (rq_sent = 4 /\ rq_result.kind = "error")

C7_ClientErrorFailsFast ==
  (rq_last.kind = "http" /\ rq_last.status \in 400..499 /\ rq_last.status # 429) =>
    /\ rq_pc = "done"
    /\ rq_sent = rq_attempt + 1
    /\ rq_result.kind = "error" /\ rq_result.status = rq_last.status

C7_Witness ==
  /\ rq_pc = "done" /\ rq_sent = 1
  /\ rq_last.kind = "http" /\ rq_last.status = 404
  /\ rq_result.kind = "error" /\ rq_result.status = 404

\* C10: once a resolve of a name has returned an id, a later resolve of the
\* same name returns that id and issues no upstream request.
C10_SecondResolveNoNetwork ==
  (rs_pc = "done" /\ rs_prev[rs_name] # NoId)
  => (rs_ret = rs_prev[rs_name] /\ rs_net = 0)

\* the id half of C10 alone
C10_SameId ==
  (rs_pc = "done" /\ rs_prev[rs_name] # NoId) => rs_ret = rs_prev[rs_name]

\* C5: once a pair has had a non-empty head-to-head result, a call for that
\* pair whose upstream response is empty returns the list held for the pair,
\* flagged as served from the cache; that list is the latest non-empty
\* upstream result of the pair.
Upstream(l) == [i \in 1..Len(l) |-> [l[i] EXCEPT !.enriched = {}]]

C5_EmptyReusesLastGood ==
  (hh_empty = "reuse" /\ hh_pc \in {"sleeping", "enrich", "done"}) =>
    /\ hh_pc = "done"
    /\ hh_result.cache = TRUE
    /\ hh_result.data = h2h_cache[hh_key].data
    /\ Upstream(hh_result.data) = hh_lkg[hh_key]

C5_Witness ==
  /\ hh_pc = "done" /\ hh_empty = "reuse"
  /\ hh_result.cache = TRUE
  /\ Len(hh_result.data) = 2
  /\ \E i \in 1..2 : hh_result.data[i].enriched # {}

\* C11: a call made while the entry an earlier successful call of the same
\* request cached is still within its TTL returns that cached result at
\* once, without an upstream request, whatever the payload was (an empty
\* one included).
C11_CachedCallNoRequest ==
  [][ (rq_pc = "idle" /\ rq_pc' # "idle"
         /\ hl_expiry[rq_key'] # NoExpiry /\ now < hl_expiry[rq_key'])
      => (rq_pc' = "done" /\ rq_sent' = 0
            /\ rq_result' = DataResult(hl_cache[rq_key'])) ]_vars

\* C12: every entry stored in the last-known-good cache holds a non-empty
\* list, and a step in which no non-empty upstream result arrives leaves
\* every stored entry in place with the matches it had.
C12_EntriesNonEmpty ==
  \A k \in PairKeys : h2h_cache[k].present => h2h_cache[k].data # <<>>

C12_EmptyKeepsEntry ==
  hh_lkg' = hh_lkg =>
    \A k \in PairKeys :
      h2h_cache[k].present =>
        /\ h2h_cache'[k].present
        /\ Upstream(h2h_cache'[k].data) = Upstream(h2h_cache[k].data)

C12_OnlyNonEmptyWritten ==
  []C12_EntriesNonEmpty /\ [][C12_EmptyKeepsEntry]_vars

\* C12 witness: an empty retry ended a call for a pair without an entry
\* while the entry of another pair stayed as it was stored.
C12_Witness ==
  /\ hh_pc = "done" /\ hh_empty = "retry" /\ hh_result.data = <<>>
  /\ ~h2h_cache[hh_key].present
  /\ \E k \in PairKeys : h2h_cache[k].present /\ h2h_cache[k].data # <<>>

\* C13: an empty first result without a last-known-good entry is followed by
\* exactly one retry, an empty first result with an entry by none, and a
\* request never issues more than two head-to-head calls.
C13_RetryExactlyOnce ==
  /\ hh_gets <= 2
  /\ hh_pc = "done" =>
       /\ hh_empty = "retry" => hh_gets = 2
       /\ hh_empty \in {"reuse", "no"} => hh_gets = 1
  /\ hh_pc = "sleeping" => (hh_empty = "retry" /\ hh_gets = 2)

C13_Witness ==
  /\ hh_pc = "done" /\ hh_empty = "retry" /\ hh_gets = 2
  /\ hh_result.returned /\ hh_result.data # <<>>

\* C14: a call that ends empty after the retry tells the caller whether
\* upstream answered with nothing twice or a hard error was met.  The
\* returned dict has the keys data, sport, type (and cache on reuse); sport
\* and type do not depend on the responses.  A call that met no hard error
\* returns EmptyTwiceResult ...
EmptyTwiceResult == H2HResult(<<>>, FALSE)

C14_NothingTwice ==
  (hh_pc = "done" /\ hh_empty = "retry" /\ hh_result.data = <<>> /\ ~hh_hard)
  => hh_result = EmptyTwiceResult

\* ... so a call that did meet one has to return something else.
C14_HardErrorDistinguishable ==
  (hh_pc = "done" /\ hh_empty = "retry" /\ hh_result.data = <<>> /\ hh_hard)
  => hh_result # EmptyTwiceResult

CompleteResult == H2HResult(<<en_match>>, FALSE)

C16_Complete ==
  (en_pc = "done" /\ \A b \in Branches : en_branch[b] \in {"ok_data", "ok_none"})
  => en_result = CompleteResult

\* C16: ... so when one fetch failed and the other succeeded, the result has
\* to differ from the one a complete reconciliation with the same statistics
\* gives.
C16_PartialReported ==
  (en_pc = "done" /\ (\E b \in Branches : en_branch[b] \in {"error", "raised"})
          /\ (\E b \in Branches : en_branch[b] \in {"ok_data", "ok_none"}))
  => en_result # CompleteResult

\* C17: for every shape of match payload the reconciliation returns a home
\* and an away record that each contain all six fields, without raising.
C17_AlwaysSixFields ==
  ex_pc = "done" =>
    /\ ex_ret.kind = "returned"
    /\ Fields \subseteq ex_ret.home /\ Fields \subseteq ex_ret.away

\* C17, the part that holds: a call that returns gives both records all
\* six fields, and a payload whose team objects and statistics entries are
\* dicts (or missing) does return.
WellTyped(m) ==
  /\ \A t \in {m.homeTeam, m.home, m.awayTeam, m.away} : t # "str"
  /\ \A i \in 1..Len(m.statistics) :
       /\ m.statistics[i].kind = "dict" /\ m.statistics[i].team # "str"
       /\ m.statistics[i].items = "ok"

C17_ReturnedHasSixFields ==
  ex_pc = "done" =>
    /\ ex_ret.kind = "returned"
         => (Fields \subseteq ex_ret.home /\ Fields \subseteq ex_ret.away)
    /\ WellTyped(ex_match) => ex_ret.kind = "returned"

\* C18: a failed resolution is cached negatively: when the latest resolve of
\* a name failed and the next resolve asks for that name before any TTL has
\* run out, it returns absent without an upstream team-search request.
C18_FailureCached ==
  [][ (rs_pc = "search" /\ rs_failed /\ rs_pc' = "done")
      => (rs_net' = rs_net /\ rs_ret' = NoId) ]_vars

\* C19: an id that resolve returns is the id of a search result whose name
\* matches the queried name; a first result that does not match is never
\* accepted.
C19_ReturnedIdMatches ==
  (rs_pc = "done" /\ rs_ret # NoId) => team_name(rs_ret) = rs_name

\* C20: when resolution fails the caller falls back to a static local table,
\* so it does not return an empty result merely because resolution failed.
C20_NoEmptyOnFailedResolve ==
  [][ (rs_pc = "done" /\ rs_ret = NoId /\ rs_pc' = "idle")
      => ts_result' # "empty" ]_vars

\* C21: a valid durable-tier hit is promoted: after a get(k) that returned a
\* value, the in-process tier holds k with that value and expiry.
C21_DurableHitPromoted ==
  (subject = "highlightly" /\ ret.op = "get" /\ ret.v # None)
  => (hl_cache[ret.k] = ret.v /\ hl_expiry[ret.k] = ret.exp)

\* C23: the durable tier does not hold the tracked set(k, v, ttl): its write
\* failed, or the record was evicted once its TTL had elapsed.
TrackedRecord == [expires_at |-> tracked.at + tracked.ttl, data |-> tracked.v]
NotDurable ==
  /\ subject = "highlightly" /\ tracked.who = "highlightly"
  /\ hl_file[tracked.k] # TrackedRecord

\* C23, the part that holds: a set whose durable write failed is served
\* from the in-process tier until its TTL elapses.
C23_ServedFromFastTier ==
  (NotDurable /\ ret.op = "get" /\ ret.k = tracked.k
     /\ now < tracked.at + tracked.ttl)
  => (ret.v = tracked.v /\ hl_cache[tracked.k] = tracked.v)

\* C23: if the durable write of set(k, v, ttl) fails, v is served until its
\* TTL elapses and after that TTL get(k) returns absent.
C23_FastTierOnly ==
  (NotDurable /\ ret.op = "get" /\ ret.k = tracked.k)
  => IF now < tracked.at + tracked.ttl
     THEN ret.v = tracked.v
     ELSE ret.v = None

\* C24: exhaustion by rate-limiting can be told from exhaustion by upstream
\* fault.  A call whose attempts all met a 5xx or a transport error returns
\* FaultExhausted ...
FaultExhausted == ErrorResult("Request failed after retries", 503)

C24_FaultExhaustion ==
  (rq_pc = "done" /\ rq_sent = max_attempts /\ rq_transient
     /\ rq_last.status # 429)
  => rq_result = FaultExhausted

\* C24: ... so a call whose attempts were all rate-limited returns, once the
\* ceiling is exhausted, an error that differs from it.
C24_RateLimitedDistinct ==
  (rq_pc = "done" /\ rq_sent = max_attempts /\ rq_limited)
  => (rq_result.kind = "error" /\ rq_result # FaultExhausted)

\* C29: a structured error result is never cached in either tier: a step
\* that puts a value into the in-process tier or changes the durable record
\* to something readable is the 2xx attempt storing its body, and after an
\* error result the cache gives the key no hit, so the identical call
\* attempts the upstream again.
C29_StepWritesOnlySuccess ==
  \A k \in Keys :
    ((hl_cache'[k] # hl_cache[k] /\ hl_cache'[k] # None)
       \/ (hl_file'[k] # hl_file[k] /\ hl_file'[k] \notin {NoFile, Corrupt}))
    => /\ rq_pc = "attempting" /\ k = rq_key
       /\ classify(rq_last') = "success"
       /\ hl_cache'[k] = rq_last'.body
       /\ rq_result' = DataResult(rq_last'.body)

C29_ErrorLeavesMiss ==
  (rq_pc = "done" /\ rq_result.kind = "error") => ~truthy(cached_value(rq_key))

C29_OnlySuccessCached ==
  /\ [][C29_StepWritesOnlySuccess]_vars
  /\ []C29_ErrorLeavesMiss

\* C29 witness: a call ended with a client error after one request and the
\* cache holds nothing for its key
C29_Witness ==
  /\ rq_pc = "done" /\ rq_sent = 1 /\ rq_result.kind = "error"
  /\ rq_last.status = 404
  /\ hl_cache[rq_key] = None /\ hl_file[rq_key] = NoFile

\* C22: cached values are never shared by reference: attaching statistics
\* to the latest match of a result leaves the last-known-good entry as the
\* cache write stored it.
C22_EnrichmentLeavesCache ==
  [][hh_pc = "enrich" => h2h_cache' = h2h_cache]_vars

\* C25: normalization never loses touchdowns: when
\* _extract_stats_from_match_details reports touchdowns > 0 for a side,
\* _extract_football_stats on the same payload reports touchdowns > 0 too.
C25_NormalizationKeepsTouchdowns ==
  (dstage = "done" /\ tsa["touchdowns"] > 0)
  => extract_football_stats(details)["touchdowns"] > 0

\* C25, the part that holds: touchdowns the box scores carry survive
C25_BoxTouchdownsKept ==
  (dstage = "done" /\ details.box > 0)
  => extract_football_stats(details)["touchdowns"] >= details.box

\* C26: the match selected for enrichment has the latest date among all
\* returned matches, for every mix of date values, a missing or unparsable
\* date ranking lowest.
C26_LatestSelected ==
  lt_pc = "done" =>
    \A j \in 1..Len(lt_dates) : lt_dates[j].date <= lt_dates[lt_pick].date

\* C26, the part that holds: when the dates are all of one kind the first
\* of the latest matches is selected
C26_LatestOfOneKind ==
  (lt_pc = "done" /\ ~max_raises(lt_dates)) =>
    /\ \A j \in 1..Len(lt_dates) : lt_dates[j].date <= lt_dates[lt_pick].date
    /\ \A j \in 1..(lt_pick - 1) : lt_dates[j].date < lt_dates[lt_pick].date

\* C27: once an id is stored for a key, no later step changes or removes it,
\* whatever resolve calls of that key were in flight when it was stored.
C27_StoredIdNeverChanges ==
  [][team_id_cache[rs_name] # NoId =>
       team_id_cache'[rs_name] = team_id_cache[rs_name]]_vars

\* C27, the part that holds: a call that starts after the id was stored
\* returns that id and leaves the id cache alone
C27_LaterCallKeepsId ==
  [][\A c \in Callers :
       (rc_pc[c] = "idle" /\ rc_pc'[c] # "idle" /\ team_id_cache[rs_name] # NoId)
         => /\ team_id_cache' = team_id_cache
            /\ rc_ret'[c] = team_id_cache[rs_name]]_vars

\* C28: across successive head-to-head calls of a pair, the touchdowns
\* reported for the enriched match never drop below what an earlier call
\* reported: every source whose touchdowns were reported before is in the
\* match the call returns.
C28_TouchdownsNeverDrop ==
  [][(hh_pc = "enrich" /\ hh_pc' = "done") =>
       hh_told[hh_key] \subseteq hh_result'.data[1].enriched]_vars

\* C28, the part that holds: an empty upstream answer is served from the
\* last-known-good entry, enriched matches included
C28_ReuseReportsEntry ==
  [][(hh_pc = "first" /\ hh_pc' = "done" /\ hh_result'.cache) =>
       /\ hh_result'.data = h2h_cache[hh_key].data
       /\ h2h_cache' = h2h_cache]_vars

\* C30: get_all_teams never records an empty catalog: a step that writes a
\* valid teams_all.json record writes one with teams in it.
C30_NoEmptyCatalogPersisted ==
  [][(teams_file' # teams_file /\ teams_file'.state = "valid") =>
       teams_file'.data # <<>>]_vars

\* C30, the part that holds: a fetch that gave teams, written without a
\* fault, is the catalog the record holds afterwards
C30_FetchedCatalogPersisted ==
  [][(rs_pc = "bootstrap" /\ teams_file.state # "valid" /\ teams_cache' # <<>>
        /\ teams_file'.state = "valid") =>
       teams_file'.data = teams_cache']_vars

====
